---- MODULE Spec2Model ----
(***************************************************************************)
(* A model of mcp_mediawiki.py: the WikiConfig / WikiClient pair, the five *)
(* MCP tools and the two HTTP routes, run against a MediaWiki backend that *)
(* behaves like the FakeSite / FakePage of tests/test_server.py and that   *)
(* may in addition fail at each point where the code talks to it.          *)
(*                                                                         *)
(* Every tool is one action: the handler runs from its first line to its   *)
(* return or raise.  What the handler did on the way (the backend calls it *)
(* issued, on which connection) is kept in the variable last.              *)
(***************************************************************************)
EXTENDS Integers, Sequences, FiniteSets, TLC

VARIABLES config, connection_count, pages, last, inv

vars == <<config, connection_count, pages, last, inv>>

\* Python's None.
None == "None"

----------------------------------------------------------------------------
\* Bounds of the model.

\* Longest revision list of a page in the initial backend.
MaxRevs == 3
\* Number of tool / route invocations in a run.
MaxInvocations == 2

\* Field(ge=1, le=50) of the two limit parameters.
MinLimit == 1
MaxLimit == 50
\* JSONResponse's default status code.
HttpOk == 200

Titles == {"Existing", "Missing"}
Contents == {"updated", "new"}
Summaries == {"sum"}
Queries == {"abc"}
Limits == {0, 1, 2, 3, MaxLimit, MaxLimit + 1}
\* Values of the MW_USE_HTTPS environment variable.
HttpsEnv == {"true", "True", "false"}
\* Values of MW_BOT_USER / MW_BOT_PASS: unset, empty, set.
Credentials == {<<None, None>>, <<"bot", "">>, <<"bot", "pw">>}

\* What the backend does to the invocation at hand:
\*   unreachable     mwclient.Site(...) raises
\*   login_rejected  site.login(...) raises
\*   lookup_fails    site.pages[title] raises
\*   call_fails      the read / search / save that follows raises
\*   info_fails      reading site_info / logged_in raises
ConnectFaults == {"none", "unreachable", "login_rejected"}
PageFaults == ConnectFaults \cup {"lookup_fails", "call_fails"}
SearchFaults == ConnectFaults \cup {"call_fails"}
StatusFaults == ConnectFaults \cup {"info_fails"}

\* The attributes the connection object has: the test's FakeSite, mwclient's Site.
Shapes == {{"site_info"}, {"site", "logged_in", "username"}}

FaultMsg(fault) ==
    CASE fault = "unreachable" -> "Connection refused"
      [] fault = "login_rejected" -> "Incorrect username or password"
      [] fault = "lookup_fails" -> "readapidenied"
      [] fault = "call_fails" -> "internal_api_error"
      [] fault = "info_fails" -> "malformed siteinfo"
      [] OTHER -> ""

Min(a, b) == IF a <= b THEN a ELSE b
Max(a, b) == IF a >= b THEN a ELSE b

\* Python's s[:n].
SlicePrefix(s, n) ==
    IF n >= 0 THEN SubSeq(s, 1, Min(n, Len(s)))
    ELSE SubSeq(s, 1, Max(Len(s) + n, 0))

\* Python's str.lower() on the values of HttpsEnv.
Lower(s) == IF s = "True" THEN "true" ELSE s

----------------------------------------------------------------------------
\* WikiConfig

WikiConfig(httpsEnv, user, pass) ==
    LET use_https == (Lower(httpsEnv) = "true")
    IN  [host |-> "wiki.example.com",
         path |-> "/wiki/",
         use_https |-> use_https,
         bot_user |-> user,
         bot_pass |-> pass,
         scheme |-> IF use_https THEN "https" ELSE "http"]

\* bool(x) of an optional string: None and "" are false.
Truthy(x) == x # None /\ x # ""

is_auth_configured(cfg) == Truthy(cfg.bot_user) /\ Truthy(cfg.bot_pass)

\* A page URL that leaves the script path out.
PageUrlWithoutPath(cfg, title) ==
    cfg.scheme \o "://" \o cfg.host \o "/index.php/" \o title

PageUrl(cfg, title) ==
    cfg.scheme \o "://" \o cfg.host \o cfg.path \o "index.php/" \o title

----------------------------------------------------------------------------
\* The backend: FakeSite / FakePage.

StrTime(s) == [kind |-> "str", str |-> s, tm |-> <<>>]
StructTime(tm) == [kind |-> "struct_time", str |-> None, tm |-> tm]

\* The i-th revision of a page, in the order the backend lists them.
Rev(i) ==
    [revid |-> i,
     user |-> "u" \o ToString(i),
     timestamp |-> IF i = 1 THEN StrTime("t1")
                   ELSE StructTime(<<2024, i, 7, 9, 5, 30>>),
     comment |-> "c" \o ToString(i)]

FakePage(exists, n) ==
    [exists |-> exists,
     text |-> IF exists THEN "text" ELSE "",
     revisions |-> [i \in 1..n |-> Rev(i)],
     categories |-> IF exists THEN <<"Category">> ELSE <<>>,
     namespace |-> 0,
     protection |-> <<>>,
     saved |-> <<>>]

\* FakePage.revisions(), limit left at None: the slice [:None] is the whole list.
AllRevisions(page) == page.revisions

\* FakePage.revisions(limit).
Revisions(page, limit) == SlicePrefix(page.revisions, limit)

\* FakePage.save(text, summary).
Save(page, text, summary) ==
    [page EXCEPT !.saved = Append(@, <<text, summary>>), !.text = text]

\* FakeSite.search(query, limit).
Search(query, limit) ==
    SlicePrefix(<<[title |-> "Page1", snippet |-> "Snippet1"],
                  [title |-> "Page2", snippet |-> "Snippet2"]>>, limit)

\* Number of save calls the backend has received.
RECURSIVE SaveCountOver(_, _)
SaveCountOver(pgs, ts) ==
    IF ts = {} THEN 0
    ELSE LET t == CHOOSE x \in ts : TRUE
         IN  Len(pgs[t].saved) + SaveCountOver(pgs, ts \ {t})

SaveCount(pgs) == SaveCountOver(pgs, DOMAIN pgs)

----------------------------------------------------------------------------
\* Exceptions and handler outcomes.

Exc(type, msg) == [type |-> type, msg |-> msg]
NoExc == Exc(None, "")
NoSite == [id |-> 0, logged_in |-> FALSE, username |-> None]

Call(site, name) == [conn |-> site.id, call |-> name]

\* What one run of a handler did: whether it raised, the exception or the
\* value, the backend calls it issued, the connection counter and the backend
\* after it, and the states its connection went through.
Outcome(raised, exc, value, calls, count, pgs, lifecycle) ==
    [raised |-> raised, exc |-> exc, value |-> value, calls |-> calls,
     count |-> count, pages |-> pgs, lifecycle |-> lifecycle]

----------------------------------------------------------------------------
\* WikiClient

\* A get_site that keeps the first connection and hands it out again.
get_site_cached(count, cfg, fault) ==
    LET n == IF count = 0 THEN 1 ELSE count
        site == [id |-> 1, logged_in |-> is_auth_configured(cfg),
                 username |-> IF is_auth_configured(cfg) THEN cfg.bot_user ELSE None]
    IN  [ok |-> TRUE, count |-> n, exc |-> NoExc, site |-> site,
         calls |-> IF count = 0 THEN <<Call(site, "Site")>> ELSE <<>>,
         phase |-> IF count = 0 THEN <<"Connecting", "Anonymous">> ELSE <<>>]

\* A get_site that logs a rejected login and goes on without it.
get_site_anonymous_fallback(count, cfg, fault) ==
    LET n == count + 1
        site == [id |-> n, logged_in |-> FALSE, username |-> None]
        auth == is_auth_configured(cfg)
    IN  IF fault = "unreachable"
        THEN [ok |-> FALSE, count |-> n,
              exc |-> Exc("ConnectionError", FaultMsg(fault)), site |-> NoSite,
              calls |-> <<Call(site, "Site")>>, phase |-> <<"Connecting">>]
        ELSE [ok |-> TRUE, count |-> n, exc |-> NoExc,
              site |-> [site EXCEPT !.logged_in = auth /\ fault # "login_rejected",
                                    !.username = IF auth /\ fault # "login_rejected"
                                                 THEN cfg.bot_user ELSE None],
              calls |-> <<Call(site, "Site")>>
                        \o (IF auth THEN <<Call(site, "login")>> ELSE <<>>),
              phase |-> <<"Connecting",
                          IF auth /\ fault # "login_rejected"
                          THEN "Authenticated" ELSE "Anonymous">>]

\* WikiClient.get_site: count is _connection_count before the call.
get_site(count, cfg, fault) ==
    LET n == count + 1
        site == [id |-> n, logged_in |-> FALSE, username |-> None]
        open == <<Call(site, "Site")>>
        login == <<Call(site, "login")>>
    IN  IF fault = "unreachable"
        THEN [ok |-> FALSE, count |-> n,
              exc |-> Exc("ConnectionError", FaultMsg(fault)), site |-> NoSite,
              calls |-> open, phase |-> <<"Connecting">>]
        ELSE IF is_auth_configured(cfg)
        THEN IF fault = "login_rejected"
             THEN [ok |-> FALSE, count |-> n,
                   exc |-> Exc("LoginError", FaultMsg(fault)), site |-> NoSite,
                   calls |-> open \o login, phase |-> <<"Connecting">>]
             ELSE [ok |-> TRUE, count |-> n, exc |-> NoExc,
                   site |-> [site EXCEPT !.logged_in = TRUE,
                                         !.username = cfg.bot_user],
                   calls |-> open \o login,
                   phase |-> <<"Connecting", "Authenticated">>]
        ELSE [ok |-> TRUE, count |-> n, exc |-> NoExc, site |-> site,
              calls |-> open, phase |-> <<"Connecting", "Anonymous">>]

\* The states the handler's connection goes through: s is what get_site gave.
\* The handle is a local of the handler and is dropped when the handler ends.
Lifecycle(s) ==
    <<"Idle">> \o s.phase \o (IF s.ok THEN <<"InUse">> ELSE <<>>) \o <<"Discarded">>

\* test_connection without its except clause.
test_connection_uncaught(cfg, r) == r

\* The except clause of test_connection: r is the outcome of its try block.
test_connection_except(cfg, r) ==
    IF r.raised
    THEN [r EXCEPT !.raised = FALSE, !.exc = NoExc,
                   !.value = [status |-> "error", host |-> cfg.host,
                              error |-> r.exc.msg]]
    ELSE r

Generator == "MediaWiki 1.39.0"

\* WikiClient.test_connection.
test_connection(count, cfg, fault, shape, pgs) ==
    LET s == get_site(count, cfg, fault)
        life == Lifecycle(s)
        version == IF "site_info" \in shape THEN Generator
                   ELSE IF "site" \in shape THEN Generator ELSE None
        calls == s.calls \o <<Call(s.site, "site_info")>>
        try ==
            IF ~s.ok
            THEN Outcome(TRUE, s.exc, None, s.calls, s.count, pgs, life)
            ELSE IF fault = "info_fails"
            THEN Outcome(TRUE, Exc("KeyError", FaultMsg(fault)), None, calls,
                         s.count, pgs, life)
            ELSE Outcome(FALSE, NoExc,
                         [status |-> "ok",
                          host |-> cfg.host,
                          path |-> cfg.path,
                          scheme |-> cfg.scheme,
                          mediawiki_version |-> version,
                          logged_in |-> IF "logged_in" \in shape
                                        THEN s.site.logged_in ELSE None,
                          username |-> IF "username" \in shape
                                       THEN s.site.username ELSE None],
                         calls, s.count, pgs, life)
    IN  test_connection_except(cfg, try)

----------------------------------------------------------------------------
\* The tools.

Pad(n, width) ==
    LET d == ToString(n)
    IN  IF Len(d) >= width THEN d
        ELSE IF Len(d) = width - 1 THEN "0" \o d
        ELSE IF Len(d) = width - 2 THEN "00" \o d
        ELSE "000" \o d

\* datetime(*tm[:6]).isoformat()
IsoFormat(tm) ==
    Pad(tm[1], 4) \o "-" \o Pad(tm[2], 2) \o "-" \o Pad(tm[3], 2) \o "T"
    \o Pad(tm[4], 2) \o ":" \o Pad(tm[5], 2) \o ":" \o Pad(tm[6], 2)

\* An except clause that wraps whatever the try block raised.
wrap_everything(prefix, r) ==
    IF r.raised
    THEN [r EXCEPT !.exc = Exc("WikiOperationError", prefix \o r.exc.msg)]
    ELSE r

\* The except clauses of get_page and get_page_history: a WikiPageNotFoundError
\* is re-raised, any other exception becomes a WikiOperationError.
wrap_unless_not_found(prefix, r) ==
    IF r.raised /\ r.exc.type # "WikiPageNotFoundError"
    THEN [r EXCEPT !.exc = Exc("WikiOperationError", prefix \o r.exc.msg)]
    ELSE r

\* The except clause of update_page and search_pages.
wrap(prefix, r) ==
    IF r.raised
    THEN [r EXCEPT !.exc = Exc("WikiOperationError", prefix \o r.exc.msg)]
    ELSE r

NotFound(title) ==
    Exc("WikiPageNotFoundError", "Page '" \o title \o "' not found")

get_page(title, fault, count, cfg, pgs) ==
    LET s == get_site(count, cfg, fault)
        life == Lifecycle(s)
        page == pgs[title]
        lookup == s.calls \o <<Call(s.site, "pages")>>
        read == lookup \o <<Call(s.site, "revisions")>>
        all == read \o <<Call(s.site, "categories"), Call(s.site, "text")>>
        try ==
            IF ~s.ok
            THEN Outcome(TRUE, s.exc, None, s.calls, s.count, pgs, life)
            ELSE IF fault = "lookup_fails"
            THEN Outcome(TRUE, Exc("APIError", FaultMsg(fault)), None, lookup,
                         s.count, pgs, life)
            ELSE IF ~page.exists
            THEN Outcome(TRUE, NotFound(title), None, lookup, s.count, pgs, life)
            ELSE IF fault = "call_fails"
            THEN Outcome(TRUE, Exc("APIError", FaultMsg(fault)), None, read,
                         s.count, pgs, life)
            ELSE IF AllRevisions(page) = <<>>
            THEN Outcome(TRUE, Exc("StopIteration", ""), None, read, s.count,
                         pgs, life)
            ELSE LET first_rev == Head(AllRevisions(page))
                     ts == first_rev.timestamp
                     last_modified == IF ts.kind = "struct_time"
                                      THEN IsoFormat(ts.tm) ELSE ts.str
                 IN  Outcome(FALSE, NoExc,
                             [title |-> title,
                              content |-> page.text,
                              metadata |->
                                  [url |-> PageUrl(cfg, title),
                                   last_modified |-> last_modified,
                                   namespace |-> page.namespace,
                                   length |-> Len(page.text),
                                   protection |-> page.protection,
                                   categories |-> page.categories]],
                             all, s.count, pgs, life)
    IN  wrap_unless_not_found("Failed to get page '" \o title \o "': ", try)

\* An update_page body that saves and, for good measure, saves again.
save_page_twice(title, content, summary, fault, count, cfg, pgs) ==
    LET s == get_site(count, cfg, "none")
        once == [pgs EXCEPT ![title] = Save(@, content, summary)]
    IN  Outcome(FALSE, NoExc,
                [status |-> "success", title |-> title,
                 url |-> PageUrl(cfg, title), content |-> None, summary |-> None],
                s.calls \o <<Call(s.site, "pages"), Call(s.site, "save"),
                             Call(s.site, "save")>>,
                s.count, [once EXCEPT ![title] = Save(@, content, summary)],
                Lifecycle(s))

\* The try block of update_page.
save_page(title, content, summary, fault, count, cfg, pgs) ==
    LET s == get_site(count, cfg, fault)
        life == Lifecycle(s)
        lookup == s.calls \o <<Call(s.site, "pages")>>
        save == lookup \o <<Call(s.site, "save")>>
    IN  IF ~s.ok
        THEN Outcome(TRUE, s.exc, None, s.calls, s.count, pgs, life)
        ELSE IF fault = "lookup_fails"
        THEN Outcome(TRUE, Exc("APIError", FaultMsg(fault)), None, lookup,
                     s.count, pgs, life)
        ELSE IF fault = "call_fails"
        THEN Outcome(TRUE, Exc("APIError", FaultMsg(fault)), None, save,
                     s.count, pgs, life)
        ELSE Outcome(FALSE, NoExc,
                     [status |-> "success", title |-> title,
                      url |-> PageUrl(cfg, title), content |-> None,
                      summary |-> None],
                     save, s.count,
                     [pgs EXCEPT ![title] = Save(@, content, summary)], life)

\* An update_page that does not look at dry_run and saves.
dry_run_ignored(title, content, summary, fault, count, cfg, pgs) ==
    wrap("Failed to update page '" \o title \o "': ",
         save_page(title, content, summary, fault, count, cfg, pgs))

\* The dry_run branch of update_page.
dry_run_response(title, content, summary, fault, count, cfg, pgs) ==
    Outcome(FALSE, NoExc,
            [status |-> "dry-run", title |-> title, url |-> None,
             content |-> content, summary |-> summary],
            <<>>, count, pgs, <<>>)

update_page(title, content, summary, dry_run, fault, count, cfg, pgs) ==
    IF dry_run
    THEN dry_run_response(title, content, summary, fault, count, cfg, pgs)
    ELSE wrap("Failed to update page '" \o title \o "': ",
              save_page(title, content, summary, fault, count, cfg, pgs))

\* A limit check that lets 0 and 51 through.
ValidLimitOffByOne(limit) == limit >= MinLimit - 1 /\ limit <= MaxLimit + 1

\* Field(ge=1, le=50).
ValidLimit(limit) == limit >= MinLimit /\ limit <= MaxLimit

Invalid(count, pgs) ==
    Outcome(TRUE, Exc("ValidationError", "limit out of range"), None, <<>>,
            count, pgs, <<>>)

search_pages(query, limit, fault, count, cfg, pgs) ==
    LET s == get_site(count, cfg, fault)
        life == Lifecycle(s)
        search == s.calls \o <<Call(s.site, "search")>>
        results == Search(query, limit)
        hits == [i \in 1..Len(results) |->
                    [title |-> results[i].title,
                     snippet |-> IF "snippet" \in DOMAIN results[i]
                                 THEN results[i].snippet ELSE None]]
        try ==
            IF ~s.ok
            THEN Outcome(TRUE, s.exc, None, s.calls, s.count, pgs, life)
            ELSE IF fault = "call_fails"
            THEN Outcome(TRUE, Exc("APIError", FaultMsg(fault)), None, search,
                         s.count, pgs, life)
            ELSE Outcome(FALSE, NoExc,
                         [results |-> hits, total |-> Len(hits), query |-> query],
                         search, s.count, pgs, life)
    IN  IF ~ValidLimit(limit) THEN Invalid(count, pgs)
        ELSE wrap("Failed to search wiki: ", try)

\* The revision dict the comprehension of get_page_history builds.
RevisionEntry(rev) ==
    [revid |-> rev.revid, user |-> rev.user, timestamp |-> rev.timestamp,
     comment |-> rev.comment]

\* A history that comes out oldest first.
history_reversed(page, limit) ==
    LET revs == Revisions(page, limit)
    IN  [i \in 1..Len(revs) |-> RevisionEntry(revs[Len(revs) + 1 - i])]

\* The list comprehension of get_page_history.
history(page, limit) ==
    LET revs == Revisions(page, limit)
    IN  [i \in 1..Len(revs) |-> RevisionEntry(revs[i])]

get_page_history(title, limit, fault, count, cfg, pgs) ==
    LET s == get_site(count, cfg, fault)
        life == Lifecycle(s)
        page == pgs[title]
        lookup == s.calls \o <<Call(s.site, "pages")>>
        read == lookup \o <<Call(s.site, "revisions")>>
        try ==
            IF ~s.ok
            THEN Outcome(TRUE, s.exc, None, s.calls, s.count, pgs, life)
            ELSE IF fault = "lookup_fails"
            THEN Outcome(TRUE, Exc("APIError", FaultMsg(fault)), None, lookup,
                         s.count, pgs, life)
            ELSE IF ~page.exists
            THEN Outcome(TRUE, NotFound(title), None, lookup, s.count, pgs, life)
            ELSE IF fault = "call_fails"
            THEN Outcome(TRUE, Exc("APIError", FaultMsg(fault)), None, read,
                         s.count, pgs, life)
            ELSE Outcome(FALSE, NoExc, history(page, limit), read, s.count, pgs,
                         life)
    IN  IF ~ValidLimit(limit) THEN Invalid(count, pgs)
        ELSE wrap_unless_not_found(
                 "Failed to get page history for '" \o title \o "': ", try)

server_status(count, cfg, fault, shape, pgs) ==
    test_connection(count, cfg, fault, shape, pgs)

----------------------------------------------------------------------------
\* The HTTP routes.

JSONResponse(body) == [status_code |-> HttpOk, body |-> body]

root_handler(count, cfg, fault, shape, pgs) ==
    Outcome(FALSE, NoExc,
            JSONResponse([status |-> "ok", server |-> "mcp-mediawiki",
                          version |-> "0.2.0", transport |-> "sse"]),
            <<>>, count, pgs, <<>>)

\* A /health that answers like /.
health_handler_static(count, cfg, fault, shape, pgs) ==
    root_handler(count, cfg, fault, shape, pgs)

health_handler(count, cfg, fault, shape, pgs) ==
    LET status == test_connection(count, cfg, fault, shape, pgs)
    IN  [status EXCEPT !.value = JSONResponse(status.value)]

----------------------------------------------------------------------------
\* The state machine.

\* The invocation at hand: the tool or route and its arguments.
Request(op, title, content, summary, dry_run, query, limit, fault, shape) ==
    [op |-> op, title |-> title, content |-> content, summary |-> summary,
     dry_run |-> dry_run, query |-> query, limit |-> limit, fault |-> fault,
     shape |-> shape]

NoRequest == Request("none", None, None, None, None, None, None, "none", {})

\* The handler has run: r is its outcome.
Done(req, r) ==
    /\ inv < MaxInvocations
    /\ inv' = inv + 1
    /\ connection_count' = r.count
    /\ pages' = r.pages
    /\ last' = [req |-> req, before |-> connection_count, raised |-> r.raised,
                exc |-> r.exc, value |-> r.value, calls |-> r.calls,
                lifecycle |-> r.lifecycle]
    /\ UNCHANGED config

Init ==
    /\ \E h \in HttpsEnv, c \in Credentials : config = WikiConfig(h, c[1], c[2])
    /\ connection_count = 0
    /\ \E n \in 1..MaxRevs :
           pages = [t \in Titles |->
                       IF t = "Existing" THEN FakePage(TRUE, n)
                       ELSE FakePage(FALSE, 0)]
    /\ last = [req |-> NoRequest, before |-> 0, raised |-> FALSE, exc |-> NoExc,
               value |-> None, calls |-> <<>>, lifecycle |-> <<>>]
    /\ inv = 0

GetPage ==
    \E t \in Titles, f \in PageFaults :
        Done(Request("get_page", t, None, None, None, None, None, f, {}),
             get_page(t, f, connection_count, config, pages))

UpdatePage ==
    \E t \in Titles, c \in Contents, s \in Summaries, d \in BOOLEAN :
        \E f \in IF d THEN {"none"} ELSE PageFaults :
            Done(Request("update_page", t, c, s, d, None, None, f, {}),
                 update_page(t, c, s, d, f, connection_count, config, pages))

SearchPages ==
    \E q \in Queries, l \in Limits, f \in SearchFaults :
        Done(Request("search_pages", None, None, None, None, q, l, f, {}),
             search_pages(q, l, f, connection_count, config, pages))

GetPageHistory ==
    \E t \in Titles, l \in Limits, f \in PageFaults :
        Done(Request("get_page_history", t, None, None, None, None, l, f, {}),
             get_page_history(t, l, f, connection_count, config, pages))

ServerStatus ==
    \E f \in StatusFaults, sh \in Shapes :
        Done(Request("server_status", None, None, None, None, None, None, f, sh),
             server_status(connection_count, config, f, sh, pages))

GetRoot ==
    \E f \in StatusFaults, sh \in Shapes :
        Done(Request("GET /", None, None, None, None, None, None, f, sh),
             root_handler(connection_count, config, f, sh, pages))

GetHealth ==
    \E f \in StatusFaults, sh \in Shapes :
        Done(Request("GET /health", None, None, None, None, None, None, f, sh),
             health_handler(connection_count, config, f, sh, pages))

Next ==
    \/ GetPage
    \/ UpdatePage
    \/ SearchPages
    \/ GetPageHistory
    \/ ServerStatus
    \/ GetRoot
    \/ GetHealth

Spec == Init /\ [][Next]_vars

----------------------------------------------------------------------------
\* Properties.

\* The request of the last invocation.
req == last.req

CountCalls(calls, name) ==
    Cardinality({i \in 1..Len(calls) : calls[i].call = name})

\* The backend makes the acquisition of a connection fail.
ConnectFails(r) ==
    \/ r.fault = "unreachable"
    \/ r.fault = "login_rejected" /\ is_auth_configured(config)

\* The backend makes a status check fail.
StatusFails(r) == ConnectFails(r) \/ r.fault = "info_fails"

InRange(limit) == limit \in MinLimit..MaxLimit

\* The invocation gets as far as acquiring a connection.
Acquires(r) ==
    \/ r.op \in {"get_page", "server_status", "GET /health"}
    \/ r.op = "update_page" /\ ~r.dry_run
    \/ r.op \in {"search_pages", "get_page_history"} /\ InRange(r.limit)

\* The backend answered the page lookup of the last invocation, and the page
\* does not exist.
ReportedMissing ==
    /\ req.op \in {"get_page", "get_page_history"}
    /\ \E i \in 1..Len(last.calls) : last.calls[i].call = "pages"
    /\ req.fault # "lookup_fails"
    /\ ~pages[req.title].exists

DryRunWritesNothing ==
    [][(inv' = inv + 1 /\ last'.req.op = "update_page" /\ last'.req.dry_run) =>
          /\ pages' = pages
          /\ SaveCount(pages') = SaveCount(pages)
          /\ CountCalls(last'.calls, "save") = 0
          /\ ~last'.raised
          /\ last'.value = [status |-> "dry-run", title |-> last'.req.title,
                            url |-> None, content |-> last'.req.content,
                            summary |-> last'.req.summary]]_vars

DryRunWitness ==
    /\ req.op = "update_page"
    /\ req.dry_run
    /\ last.value.status = "dry-run"
    /\ SaveCount(pages) = 1

\* C3: search_pages with a limit outside [1,50] fails with ValidationError
\* before any backend call: no connection is acquired, nothing is sent.
BadLimitFailsBeforeBackend ==
    (req.op = "search_pages" /\ ~InRange(req.limit)) =>
        /\ last.raised
        /\ last.exc.type = "ValidationError"
        /\ last.calls = <<>>
        /\ connection_count = last.before

BadLimitWitness ==
    /\ req.op = "search_pages"
    /\ req.limit = MaxLimit + 1
    /\ req.fault = "none"
    /\ last.exc.type = "ValidationError"

\* C4: server_status never raises; on a backend failure it returns status
\* "error" with the configured host and the failure message, otherwise a
\* record with status "ok".
ServerStatusNeverRaises ==
    req.op = "server_status" =>
        /\ ~last.raised
        /\ StatusFails(req) =>
               last.value = [status |-> "error", host |-> config.host,
                             error |-> FaultMsg(req.fault)]
        /\ ~StatusFails(req) => last.value.status = "ok"

ServerStatusWitness ==
    /\ req.op = "server_status"
    /\ req.fault = "login_rejected"
    /\ is_auth_configured(config)
    /\ last.value.status = "error"

\* The backend lets the connection and the write through.
Accepts(r) == ~ConnectFails(r) /\ r.fault \notin {"lookup_fails", "call_fails"}

\* C5: update_page without dry_run, on a backend that accepts the write,
\* saves exactly one new revision of the page with the given text and edit
\* comment, and returns status "success", the title and the page URL built
\* from scheme, host, path and title, with no content and no summary.
UpdateSavesOnce ==
    [][(/\ inv' = inv + 1
        /\ last'.req.op = "update_page"
        /\ ~last'.req.dry_run
        /\ Accepts(last'.req)) =>
          LET t == last'.req.title
          IN  /\ pages'[t].saved =
                     Append(pages[t].saved,
                            <<last'.req.content, last'.req.summary>>)
              /\ pages'[t].text = last'.req.content
              /\ \A u \in Titles \ {t} : pages'[u] = pages[u]
              /\ SaveCount(pages') = SaveCount(pages) + 1
              /\ ~last'.raised
              /\ last'.value =
                     [status |-> "success", title |-> t,
                      url |-> (IF config.use_https THEN "https" ELSE "http")
                              \o "://wiki.example.com/wiki/index.php/" \o t,
                      content |-> None, summary |-> None]]_vars

UpdateWitness ==
    /\ req.op = "update_page"
    /\ ~req.dry_run
    /\ ~last.raised
    /\ last.value.status = "success"
    /\ pages[req.title].saved = <<<<req.content, req.summary>>>>

\* Bot credentials are configured and the backend rejected the login of the
\* last invocation.
LoginRejected ==
    /\ Acquires(req)
    /\ is_auth_configured(config)
    /\ req.fault = "login_rejected"

Prefix(r) ==
    CASE r.op = "get_page" -> "Failed to get page '" \o r.title \o "': "
      [] r.op = "update_page" -> "Failed to update page '" \o r.title \o "': "
      [] r.op = "search_pages" -> "Failed to search wiki: "
      [] r.op = "get_page_history" ->
             "Failed to get page history for '" \o r.title \o "': "

\* C6: with bot credentials configured and the login rejected, acquiring the
\* connection fails with the login error carrying the backend's message; the
\* login is attempted once, the failure reaches the caller of the operation
\* with that message, and no page read, search or save follows on the
\* connection.
RejectedLoginIsSurfaced ==
    LoginRejected =>
        LET s == get_site(last.before, config, req.fault)
            msg == "Incorrect username or password"
        IN  /\ ~s.ok
            /\ s.exc = Exc("LoginError", msg)
            /\ CountCalls(last.calls, "login") = 1
            /\ last.calls = <<[conn |-> last.before + 1, call |-> "Site"],
                              [conn |-> last.before + 1, call |-> "login"]>>
            /\ IF req.op = "server_status"
               THEN ~last.raised /\ last.value.status = "error"
                    /\ last.value.error = msg
               ELSE IF req.op = "GET /health"
               THEN ~last.raised /\ last.value.body.status = "error"
                    /\ last.value.body.error = msg
               ELSE /\ last.raised
                    /\ last.exc = Exc("WikiOperationError", Prefix(req) \o msg)

RejectedLoginWitness ==
    /\ LoginRejected
    /\ req.op = "update_page"
    /\ last.raised
    /\ inv = 2

\* The paths through the connection lifecycle: a connection that was set up
\* and used, and one whose set-up failed.
LifecyclePaths ==
    {<<"Idle", "Connecting", "Authenticated", "InUse", "Discarded">>,
     <<"Idle", "Connecting", "Anonymous", "InUse", "Discarded">>,
     <<"Idle", "Connecting", "Discarded">>}

\* C7: every invocation that talks to the backend creates its own
\* connection and issues all its backend calls on it, never on a connection
\* of an earlier invocation; the connection moves forward through the
\* lifecycle and is discarded with the invocation; the connection counter
\* grows by one for each connection created.
ConnectionPerInvocation ==
    /\ \A i \in 1..Len(last.calls) : last.calls[i].conn = last.before + 1
    /\ CountCalls(last.calls, "Site") = connection_count - last.before
    /\ Acquires(req) <=> connection_count = last.before + 1
    /\ ~Acquires(req) => (connection_count = last.before /\ last.calls = <<>>)
    /\ Acquires(req) => last.calls[1].call = "Site"
    /\ Acquires(req) => last.lifecycle \in LifecyclePaths
    /\ (Acquires(req) /\ ~ConnectFails(req)) =>
           last.lifecycle =
               <<"Idle", "Connecting",
                 IF is_auth_configured(config) THEN "Authenticated"
                 ELSE "Anonymous",
                 "InUse", "Discarded">>
    /\ ~Acquires(req) => last.lifecycle = <<>>
    /\ connection_count <= inv

ConnectionWitness ==
    /\ inv = 2
    /\ last.before = 1
    /\ connection_count = 2
    /\ req.op = "get_page"
    /\ ~last.raised
    /\ \A i \in 1..Len(last.calls) : last.calls[i].conn = 2
    /\ last.lifecycle =
           <<"Idle", "Connecting", "Authenticated", "InUse", "Discarded">>

StaticRoot ==
    [status |-> "ok", server |-> "mcp-mediawiki", version |-> "0.2.0",
     transport |-> "sse"]

\* C8, as the specification states it: GET / and GET /health both answer
\* 200 with the record server_status() returns.
BothRoutesReturnServerStatus ==
    req.op \in {"GET /", "GET /health"} =>
        /\ ~last.raised
        /\ last.value.status_code = 200
        /\ last.value.body =
               server_status(last.before, config, req.fault, req.shape,
                             pages).value
        /\ last.value.body.status = IF StatusFails(req) THEN "error" ELSE "ok"

\* C8, as the code has it: GET /health answers 200 with the record
\* server_status() returns, "ok" or "error" with the backend's health; GET /
\* answers 200 with a fixed record of status "ok" whatever the backend's
\* health, and does not contact the backend.
HealthReturnsServerStatusRootIsStatic ==
    /\ req.op = "GET /health" =>
           /\ ~last.raised
           /\ last.value.status_code = 200
           /\ last.value.body =
                  server_status(last.before, config, req.fault, req.shape,
                                pages).value
           /\ last.value.body.status =
                  IF StatusFails(req) THEN "error" ELSE "ok"
    /\ req.op = "GET /" =>
           /\ ~last.raised
           /\ last.value.status_code = 200
           /\ last.value.body = StaticRoot
           /\ last.calls = <<>>

HealthWitness ==
    /\ req.op = "GET /health"
    /\ req.fault = "unreachable"
    /\ last.value.status_code = 200
    /\ last.value.body.status = "error"

\* C9: for an existing page with revisions R and a limit in [1,50],
\* get_page_history returns the first min(limit, |R|) entries of R in R's
\* order, each with its revid, user, timestamp and comment.
HistoryIsPrefix ==
    (req.op = "get_page_history" /\ InRange(req.limit)
     /\ pages[req.title].exists /\ Accepts(req)) =>
        LET R == pages[req.title].revisions
            n == IF req.limit <= Len(R) THEN req.limit ELSE Len(R)
        IN  /\ ~last.raised
            /\ Len(last.value) = n
            /\ \A i \in 1..n :
                   /\ DOMAIN last.value[i] =
                          {"revid", "user", "timestamp", "comment"}
                   /\ last.value[i].revid = R[i].revid
                   /\ last.value[i].user = R[i].user
                   /\ last.value[i].timestamp = R[i].timestamp
                   /\ last.value[i].comment = R[i].comment

HistoryWitness ==
    /\ req.op = "get_page_history"
    /\ req.limit = 2
    /\ ~last.raised
    /\ Len(pages[req.title].revisions) = 3
    /\ Len(last.value) = 2
    /\ last.value[2].revid = 2

\* C10: only update_page without dry_run changes the backend: every other
\* invocation, whether it returns or raises, leaves every page as it was; an
\* update_page without dry_run issues at most one save, and none when the
\* connection cannot be acquired.
OnlyUpdateWrites ==
    [][inv' = inv + 1 =>
          IF last'.req.op = "update_page" /\ ~last'.req.dry_run
          THEN /\ CountCalls(last'.calls, "save") <= 1
               /\ SaveCount(pages') <= SaveCount(pages) + 1
               /\ ConnectFails(last'.req) =>
                      /\ CountCalls(last'.calls, "save") = 0
                      /\ pages' = pages
          ELSE /\ pages' = pages
               /\ CountCalls(last'.calls, "save") = 0]_vars

OnlyUpdateWitness ==
    /\ inv = 2
    /\ req.op = "get_page_history"
    /\ last.raised
    /\ SaveCount(pages) = 1
    /\ pages["Existing"].text = "updated"

====
